---- MODULE Spec2Model ----
(***************************************************************************)
(* Model of cloudrun/main.py: the daily BigQuery cost job.  One invocation *)
(* of main checks the configuration, provisions the metric descriptor,     *)
(* computes yesterday's UTC window, queries the billing export, builds one *)
(* time series per row and writes the series in batches of batch_size.     *)
(*                                                                         *)
(* Units: instants are whole seconds since the epoch (UTC); costs are      *)
(* thousandths of a dollar, so that the two-decimal formatting of the      *)
(* total is a real rounding step.  Project identifiers are naturals        *)
(* standing for distinct strings.                                          *)
(***************************************************************************)
EXTENDS Integers, Sequences, FiniteSets, TLC

--------------------------------------------------------------------------
(* Bounds of the model *)

MaxInvocations == 2
MaxShortRows == 2
MaxRows == 450
MaxDays == 2
Day0 == 20000

(* Program constants *)

batch_size == 200
DAY == 86400
CUSTOM_METRIC_TYPE == "custom.googleapis.com/billing/bigquery/daily_cost"

PyNone == "<None>"
Slots == {1, 2}

--------------------------------------------------------------------------
(* Inputs *)

Min(a, b) == IF a < b THEN a ELSE b

Costs == {4, 3250, 12500}
ShortProjects == 1..MaxShortRows

Row(p, c) == [project_id |-> p, daily_cost |-> c]

Distinct(s) == \A a, b \in 1..Len(s) : a # b => s[a].project_id # s[b].project_id

ShortRowLists ==
  UNION { { s \in [1..n -> {Row(p, c) : p \in ShortProjects, c \in Costs}] : Distinct(s) }
          : n \in 0..MaxShortRows }

GenRows(n) == [k \in 1..n |-> Row(100 + k, k)]

LongLens == {batch_size, batch_size + 1, 2 * batch_size, MaxRows}

RowLists == ShortRowLists \cup {GenRows(n) : n \in LongLens}

Instants == { d * DAY + o : d \in Day0..(Day0 + MaxDays - 1), o \in {0, DAY \div 2, DAY - 1} }

ProjectIdSettings == {PyNone, "", "monitoring-project"}

--------------------------------------------------------------------------
(* Pure functions of the program *)

Today(t) == t \div DAY

(* Mutant: the window is the 24 hours before the instant read. *)
get_previous_day_range_rolling(t) == <<t - DAY, t>>

(* Mutant: the window ends at the instant read, not at midnight. *)
get_previous_day_range_to_now(t) == <<(Today(t) - 1) * DAY, t>>

(* get_previous_day_range, lines 72-84 *)
get_previous_day_range(t) ==
  LET today == Today(t)
      yesterday == today - 1
  IN  <<yesterday * DAY, today * DAY>>

FromDatetime(t) == [seconds |-> t, nanos |-> 0]

create_time_series(project_id, daily_cost, timestamp) ==
  [ metric_type |-> CUSTOM_METRIC_TYPE,
    resource_type |-> "global",
    project_id |-> project_id,
    value |-> daily_cost,
    end_time |-> timestamp,
    metric_kind |-> "GAUGE",
    value_type |-> "DOUBLE" ]

(* Mutant: each series is put at the front of the list. *)
BuildSeriesListReversed(results, timestamp) ==
  [k \in 1..Len(results) |->
     create_time_series(results[Len(results) + 1 - k].project_id,
                        results[Len(results) + 1 - k].daily_cost, timestamp)]

(* main lines 207-215: the series list, appended row by row. *)
BuildSeriesList(results, timestamp) ==
  [k \in 1..Len(results) |->
     create_time_series(results[k].project_id, results[k].daily_cost, timestamp)]

(* Mutant: the slice runs one element too far. *)
SliceOneTooFar(list, i) == SubSeq(list, i + 1, Min(i + batch_size + 1, Len(list)))

(* write_metrics_to_monitoring line 167: time_series_list[i:i + batch_size] *)
Slice(list, i) == SubSeq(list, i + 1, Min(i + batch_size, Len(list)))

(* sum(r.daily_cost for r in results).  The additions are grouped by      *)
(* halves to keep the evaluation shallow; integer addition is associative. *)
(* The middle index is bound once, as a value.                             *)
RECURSIVE SumRange(_, _, _)
SumRange(results, lo, hi) ==
  IF lo > hi THEN 0
  ELSE IF lo = hi THEN results[lo].daily_cost
  ELSE CHOOSE s \in { SumRange(results, lo, mid) + SumRange(results, mid + 1, hi)
                      : mid \in {(lo + hi) \div 2} } : TRUE

(* Mutant: the first row is left out of the total. *)
SumCostSkipsFirst(results) == SumRange(results, 2, Len(results))

(* main line 219 *)
SumCost(results) == SumRange(results, 1, Len(results))

(* "{x:.2f}": the cents a total of m thousandths is printed as.  A value   *)
(* exactly between two cents goes either way, depending on its binary      *)
(* representation.                                                         *)
Format2f(m) ==
  IF m % 10 < 5 THEN {m \div 10}
  ELSE IF m % 10 > 5 THEN {m \div 10 + 1}
  ELSE {m \div 10, m \div 10 + 1}

Falsy(v) == v \in {PyNone, ""}

TheDescriptor ==
  [ type |-> CUSTOM_METRIC_TYPE, metric_kind |-> "GAUGE", value_type |-> "DOUBLE",
    labels |-> {[key |-> "project_id", value_type |-> "STRING"]} ]

DescriptorExists(ds) == \E d \in ds : d.type = CUSTOM_METRIC_TYPE

SeriesKey(s) == <<s.metric_type, s.resource_type, s.project_id, s.end_time>>

Range(s) == {s[k] : k \in 1..Len(s)}

(* The backend commits a batch as a whole; a point for an existing series  *)
(* and timestamp replaces the stored one.                                  *)
Commit(st, batch) ==
  LET keys == {SeriesKey(s) : s \in Range(batch)}
  IN  {s \in st : SeriesKey(s) \notin keys} \cup Range(batch)

--------------------------------------------------------------------------
VARIABLES
  MONITORING_PROJECT_ID,  \* configuration read at import
  concurrency,            \* invocations the host runs at once
  billing,                \* rows the warehouse aggregates for a day window
  descriptors,            \* metric descriptors in the metrics backend
  stored,                 \* time-series points in the metrics backend
  clock,                  \* last instant read from the system clock
  invocations,            \* invocations started so far
  pc,                     \* per slot: position in main
  inv,                    \* per slot: number of the invocation it runs
  now,                    \* per slot: instant read by get_previous_day_range
  start_time, end_time,   \* per slot: the window
  results,                \* per slot: rows returned by the query
  time_series_list,       \* per slot: series built from the rows
  idx,                    \* per slot: loop index i of write_metrics_to_monitoring
  calls,                  \* per slot: external calls of this invocation, in order
  failed_projects,        \* per slot: project ids logged on a failed batch
  err,                    \* per slot: exception in flight
  response,               \* per slot: (message, status) returned by main
  interrupted             \* window ends of the invocations that failed after writing a batch

vars == << MONITORING_PROJECT_ID, concurrency, billing, descriptors, stored, clock,
           invocations, pc, inv, now, start_time, end_time, results,
           time_series_list, idx, calls, failed_projects, err, response, interrupted >>

config == << MONITORING_PROJECT_ID, concurrency, billing >>
locals == << now, start_time, end_time, results, time_series_list, idx,
             failed_projects >>

NoResponse == [message |-> [kind |-> "none"], status |-> 0]
NoError == "none"

Call(op, ok, batch) == [op |-> op, ok |-> ok, batch |-> batch]

Running(p) == pc[p] \notin {"idle", "done"}

IsOkWrite(c) == c.op = "write" /\ c.ok

(* The invocation in slot p has written at least one batch. *)
WroteSomething(p) == SelectSeq(calls[p], IsOkWrite) # <<>>

InitSlots ==
  /\ invocations = 0
  /\ interrupted = {}
  /\ pc = [p \in Slots |-> "idle"]
  /\ inv = [p \in Slots |-> 0]
  /\ now = [p \in Slots |-> 0]
  /\ start_time = [p \in Slots |-> 0]
  /\ end_time = [p \in Slots |-> 0]
  /\ results = [p \in Slots |-> <<>>]
  /\ time_series_list = [p \in Slots |-> <<>>]
  /\ idx = [p \in Slots |-> 0]
  /\ calls = [p \in Slots |-> <<>>]
  /\ failed_projects = [p \in Slots |-> <<>>]
  /\ err = [p \in Slots |-> NoError]
  /\ response = [p \in Slots |-> NoResponse]

Init ==
  /\ MONITORING_PROJECT_ID \in ProjectIdSettings
  /\ concurrency = 1
  /\ billing \in RowLists
  /\ descriptors \in {{}, {TheDescriptor}}
  /\ stored = {}
  /\ clock \in {Day0 * DAY}
  /\ InitSlots

--------------------------------------------------------------------------
(* The trigger: the host starts main in the lowest free slot. *)
Invoke(p) ==
  /\ ~Running(p)
  /\ \A q \in Slots : q < p => Running(q)
  /\ Cardinality({q \in Slots : Running(q)}) < concurrency
  /\ invocations < MaxInvocations
  /\ invocations' = invocations + 1
  /\ inv' = [inv EXCEPT ![p] = invocations + 1]
  /\ pc' = [pc EXCEPT ![p] = "main"]
  /\ now' = [now EXCEPT ![p] = 0]
  /\ start_time' = [start_time EXCEPT ![p] = 0]
  /\ end_time' = [end_time EXCEPT ![p] = 0]
  /\ results' = [results EXCEPT ![p] = <<>>]
  /\ time_series_list' = [time_series_list EXCEPT ![p] = <<>>]
  /\ idx' = [idx EXCEPT ![p] = 0]
  /\ calls' = [calls EXCEPT ![p] = <<>>]
  /\ failed_projects' = [failed_projects EXCEPT ![p] = <<>>]
  /\ err' = [err EXCEPT ![p] = NoError]
  /\ response' = [response EXCEPT ![p] = NoResponse]
  /\ UNCHANGED << config, descriptors, stored, clock, interrupted >>

(* Mutant: the configuration check is left out. *)
AfterConfigCheckOmitted(v) == "lookup"

(* Mutant: the descriptor provisioning is skipped. *)
AfterConfigCheckSkipsEnsure(v) == IF Falsy(v) THEN "except" ELSE "window"

(* main, lines 193-194: where the configuration check leads. *)
AfterConfigCheck(v) == IF Falsy(v) THEN "except" ELSE "lookup"

CheckConfig(p) ==
  /\ pc[p] = "main"
  /\ pc' = [pc EXCEPT ![p] = AfterConfigCheck(MONITORING_PROJECT_ID)]
  /\ err' = [err EXCEPT ![p] =
        IF pc'[p] = "except" THEN "GCP_PROJECT environment variable not set" ELSE @]
  /\ UNCHANGED << config, descriptors, stored, clock, invocations, interrupted, inv, locals,
                  calls, response >>

(* Mutant: no return after a successful lookup. *)
AfterLookupFallThrough(ok) == "create"

(* ensure_metric_descriptor_exists, lines 36-42: return when the lookup    *)
(* succeeds, go on to the creation when it raises.                         *)
AfterLookup(ok) == IF ok THEN "window" ELSE "create"

(* The lookup succeeds only when the descriptor exists, and may fail for   *)
(* any other reason.                                                       *)
LookupDescriptor(p) ==
  /\ pc[p] = "lookup"
  /\ \E ok \in {TRUE, FALSE} :
       /\ ok => DescriptorExists(descriptors)
       /\ calls' = [calls EXCEPT ![p] = Append(@, Call("lookup", ok, <<>>))]
       /\ pc' = [pc EXCEPT ![p] = AfterLookup(ok)]
  /\ UNCHANGED << config, descriptors, stored, clock, invocations, interrupted, inv, locals,
                  err, response >>

(* Mutant: a failed creation is raised to main. *)
AfterCreatePropagates(ok) == IF ok THEN "window" ELSE "except"

(* Mutant: a failed creation is tried again. *)
AfterCreateRetry(ok) == IF ok THEN "window" ELSE "create"

(* ensure_metric_descriptor_exists, lines 57-64: a failed creation is      *)
(* logged and swallowed; the function returns either way.                  *)
AfterCreate(ok) == "window"

CreateDescriptor(p) ==
  /\ pc[p] = "create"
  /\ \E ok \in {TRUE, FALSE} :
       /\ descriptors' = IF ok THEN descriptors \cup {TheDescriptor} ELSE descriptors
       /\ calls' = [calls EXCEPT ![p] = Append(@, Call("create", ok, <<>>))]
       /\ pc' = [pc EXCEPT ![p] = AfterCreate(ok)]
       /\ err' = [err EXCEPT ![p] =
             IF pc'[p] = "except" THEN "create failed" ELSE @]
  /\ UNCHANGED << config, stored, clock, invocations, interrupted, inv, locals, response >>

(* main line 197: get_previous_day_range reads the clock. *)
ComputeWindow(p) ==
  /\ pc[p] = "window"
  /\ \E t \in Instants :
       /\ t >= clock
       /\ clock' = t
       /\ now' = [now EXCEPT ![p] = t]
       /\ start_time' = [start_time EXCEPT ![p] = get_previous_day_range(t)[1]]
       /\ end_time' = [end_time EXCEPT ![p] = get_previous_day_range(t)[2]]
  /\ pc' = [pc EXCEPT ![p] = "query"]
  /\ UNCHANGED << config, descriptors, stored, invocations, interrupted, inv, results,
                  time_series_list, idx, failed_projects, calls, err, response >>

(* Mutant: a failed query is reported as "no data". *)
AfterFetchAsNoData(ok, rows) ==
  IF ~ok \/ rows = <<>> THEN "done" ELSE "build"

(* Mutant: a failed query is issued again. *)
AfterFetchRetry(ok, rows) ==
  IF ~ok THEN "query" ELSE IF rows = <<>> THEN "done" ELSE "build"

(* Mutant: the empty result is not told apart. *)
AfterFetchNoEmptyCheck(ok, rows) == IF ~ok THEN "except" ELSE "build"

(* main lines 198-202: a failed query raises, an empty result returns      *)
(* "No data to report", anything else goes on to the series.               *)
AfterFetch(ok, rows) ==
  IF ~ok THEN "except" ELSE IF rows = <<>> THEN "done" ELSE "build"

NoDataResponse == [message |-> [kind |-> "No data to report"], status |-> 200]

FetchCosts(p) ==
  /\ pc[p] = "query"
  /\ \E ok \in {TRUE, FALSE} :
       /\ calls' = [calls EXCEPT ![p] = Append(@, Call("query", ok, <<>>))]
       /\ results' = [results EXCEPT ![p] = IF ok THEN billing ELSE @]
       /\ pc' = [pc EXCEPT ![p] = AfterFetch(ok, billing)]
       /\ err' = [err EXCEPT ![p] = IF pc'[p] = "except" THEN "query failed" ELSE @]
       /\ response' = [response EXCEPT ![p] =
             IF pc'[p] = "done" THEN NoDataResponse ELSE @]
  /\ UNCHANGED << config, descriptors, stored, clock, invocations, interrupted, inv,
                  now, start_time, end_time, time_series_list, idx, failed_projects >>

(* main lines 204-215: one series per row, stamped with the window's end. *)
BuildSeries(p) ==
  /\ pc[p] = "build"
  /\ time_series_list' = [time_series_list EXCEPT ![p] =
        BuildSeriesList(results[p], FromDatetime(end_time[p]))]
  /\ idx' = [idx EXCEPT ![p] = 0]
  /\ pc' = [pc EXCEPT ![p] = "publish"]
  /\ UNCHANGED << config, descriptors, stored, clock, invocations, interrupted, inv, now,
                  start_time, end_time, results, failed_projects, calls, err, response >>

(* Mutant: an empty list is an error. *)
AfterEmptyCheckRaises(list) == IF list = <<>> THEN "except" ELSE "loop"

(* write_metrics_to_monitoring, lines 159-161: return at once when there   *)
(* is nothing to write, otherwise enter the loop.                          *)
AfterEmptyCheck(list) == IF list = <<>> THEN "returned" ELSE "loop"

(* write_metrics_to_monitoring, lines 159-164: entry. *)
PublishEnter(p) ==
  /\ pc[p] = "publish"
  /\ pc' = [pc EXCEPT ![p] = AfterEmptyCheck(time_series_list[p])]
  /\ err' = [err EXCEPT ![p] = IF pc'[p] = "except" THEN "nothing to write" ELSE @]
  /\ UNCHANGED << config, descriptors, stored, clock, invocations, interrupted, inv, locals,
                  calls, response >>

(* Mutant: the failed batch is logged but not re-raised. *)
AfterWriteSwallow(ok) == "loop"

(* write_metrics_to_monitoring, lines 168-181: a written batch continues   *)
(* the loop, a failed one is logged and re-raised.                         *)
AfterWrite(ok) == IF ok THEN "loop" ELSE "except"

(* Mutant: only the first project of the failed batch is logged. *)
failed_project_ids_first_only(batch) == <<batch[1].project_id>>

(* write_metrics_to_monitoring, line 179: the labels of the failed batch. *)
failed_project_ids(batch) == [k \in 1..Len(batch) |-> batch[k].project_id]

(* write_metrics_to_monitoring, lines 166-181: one iteration of the loop. *)
WriteBatch(p) ==
  /\ pc[p] = "loop"
  /\ idx[p] < Len(time_series_list[p])
  /\ LET batch == Slice(time_series_list[p], idx[p])
     IN  \E ok \in {TRUE, FALSE} :
           /\ calls' = [calls EXCEPT ![p] = Append(@, Call("write", ok, batch))]
           /\ stored' = IF ok THEN Commit(stored, batch) ELSE stored
           /\ failed_projects' = [failed_projects EXCEPT ![p] =
                 IF ok THEN @ ELSE failed_project_ids(batch)]
           /\ pc' = [pc EXCEPT ![p] = AfterWrite(ok)]
           /\ idx' = [idx EXCEPT ![p] = IF pc'[p] = "loop" THEN @ + batch_size ELSE @]
           /\ err' = [err EXCEPT ![p] = IF pc'[p] = "except" THEN "write failed" ELSE @]
  /\ UNCHANGED << config, descriptors, clock, invocations, interrupted, inv, now, start_time,
                  end_time, results, time_series_list, response >>

(* write_metrics_to_monitoring, line 166: the range is exhausted and the   *)
(* function returns.                                                       *)
LoopExit(p) ==
  /\ pc[p] = "loop"
  /\ idx[p] >= Len(time_series_list[p])
  /\ pc' = [pc EXCEPT ![p] = "returned"]
  /\ UNCHANGED << config, descriptors, stored, clock, invocations, interrupted, inv, locals,
                  calls, err, response >>

(* main lines 225-229: the success message and status. *)
SuccessResponse(projects, cents) ==
  [ message |-> [ kind |-> "Successfully wrote metrics",
                  projects |-> projects,
                  total_cents |-> cents ],
    status |-> 200 ]

(* main lines 219-229: after write_metrics_to_monitoring has returned,     *)
(* compute the total and return success.                                   *)
ReportSuccess(p) ==
  /\ pc[p] = "returned"
  /\ \E total_cost \in {SumCost(results[p])} :
       \E cents \in Format2f(total_cost) :
         LET resp == SuccessResponse(Len(time_series_list[p]), cents)
         IN  response' = [response EXCEPT ![p] = resp]
  /\ pc' = [pc EXCEPT ![p] = "done"]
  /\ UNCHANGED << config, descriptors, stored, clock, invocations, interrupted, inv,
                  locals, calls, err >>

(* Mutant: the error text is returned without a status. *)
ErrorResponseDefaultStatus(e) ==
  [message |-> [kind |-> "Error", text |-> e], status |-> 200]

(* main line 233: the response for a caught exception. *)
ErrorResponse(e) == [message |-> [kind |-> "Error", text |-> e], status |-> 500]

(* main lines 231-233: every exception becomes a 500 response. *)
HandleException(p) ==
  /\ pc[p] = "except"
  /\ response' = [response EXCEPT ![p] = ErrorResponse(err[p])]
  /\ interrupted' = IF WroteSomething(p) THEN interrupted \cup {end_time[p]}
                                         ELSE interrupted
  /\ pc' = [pc EXCEPT ![p] = "done"]
  /\ UNCHANGED << config, descriptors, stored, clock, invocations, inv, locals,
                  calls, err >>

Next ==
  \E p \in Slots :
    \/ Invoke(p)
    \/ CheckConfig(p)
    \/ LookupDescriptor(p)
    \/ CreateDescriptor(p)
    \/ ComputeWindow(p)
    \/ FetchCosts(p)
    \/ BuildSeries(p)
    \/ PublishEnter(p)
    \/ WriteBatch(p)
    \/ LoopExit(p)
    \/ ReportSuccess(p)
    \/ HandleException(p)

Spec == Init /\ [][Next]_vars

(* The steps of the invocation in slot p.  The interpreter runs the       *)
(* handler to its end, and every external call returns or raises.          *)
Step(p) ==
  \/ CheckConfig(p)
  \/ LookupDescriptor(p)
  \/ CreateDescriptor(p)
  \/ ComputeWindow(p)
  \/ FetchCosts(p)
  \/ BuildSeries(p)
  \/ PublishEnter(p)
  \/ WriteBatch(p)
  \/ LoopExit(p)
  \/ ReportSuccess(p)
  \/ HandleException(p)

(* Row lists for the runs under fairness: no row, and one row more than   *)
(* a batch holds.                                                          *)
FairRowLists == {<<>>, GenRows(batch_size + 1)}

InitFair ==
  /\ MONITORING_PROJECT_ID \in ProjectIdSettings
  /\ concurrency = 1
  /\ billing \in FairRowLists
  /\ descriptors \in {{}, {TheDescriptor}}
  /\ stored = {}
  /\ clock \in {Day0 * DAY}
  /\ InitSlots

FairSpec == InitFair /\ [][Next]_vars /\ \A p \in Slots : WF_vars(Step(p))

(* Two invocations at once: the host lets a second request in while the   *)
(* first is running.  The descriptor is absent at the start and the query  *)
(* returns at most one row.                                                *)
RaceRowLists == {<<>>, <<Row(1, 3250)>>}

InitRace ==
  /\ MONITORING_PROJECT_ID = "monitoring-project"
  /\ concurrency = 2
  /\ billing \in RaceRowLists
  /\ descriptors = {}
  /\ stored = {}
  /\ clock \in {Day0 * DAY}
  /\ InitSlots

SpecRace == InitRace /\ [][Next]_vars

(* write_metrics_to_monitoring called on its own: the first invocation    *)
(* stands at the entry of the function with a list built from any row      *)
(* list, the empty one included.                                           *)
InitPublish ==
  /\ MONITORING_PROJECT_ID = "monitoring-project"
  /\ concurrency = 1
  /\ billing \in RowLists
  /\ descriptors \in {{}, {TheDescriptor}}
  /\ stored = {}
  /\ clock = Day0 * DAY
  /\ invocations = 1
  /\ interrupted = {}
  /\ pc = [p \in Slots |-> IF p = 1 THEN "publish" ELSE "idle"]
  /\ inv = [p \in Slots |-> IF p = 1 THEN 1 ELSE 0]
  /\ now = [p \in Slots |-> IF p = 1 THEN Day0 * DAY ELSE 0]
  /\ start_time = [p \in Slots |->
        IF p = 1 THEN get_previous_day_range(Day0 * DAY)[1] ELSE 0]
  /\ end_time = [p \in Slots |->
        IF p = 1 THEN get_previous_day_range(Day0 * DAY)[2] ELSE 0]
  /\ results = [p \in Slots |-> IF p = 1 THEN billing ELSE <<>>]
  /\ time_series_list = [p \in Slots |->
        IF p = 1
          THEN BuildSeriesList(billing,
                 FromDatetime(get_previous_day_range(Day0 * DAY)[2]))
          ELSE <<>>]
  /\ idx = [p \in Slots |-> 0]
  /\ calls = [p \in Slots |-> <<>>]
  /\ failed_projects = [p \in Slots |-> <<>>]
  /\ err = [p \in Slots |-> NoError]
  /\ response = [p \in Slots |-> NoResponse]

SpecPublish == InitPublish /\ [][Next]_vars

--------------------------------------------------------------------------
(* Observations used by the properties *)

IsWrite(c) == c.op = "write"
IsQuery(c) == c.op = "query"
IsLookup(c) == c.op = "lookup"
IsCreate(c) == c.op = "create"

Writes(p) == SelectSeq(calls[p], IsWrite)

RECURSIVE Flatten(_)
Flatten(batches) ==
  IF batches = <<>> THEN <<>> ELSE batches[1].batch \o Flatten(Tail(batches))

Done(p) == pc[p] = "done"
Succeeded(p) == Done(p) /\ response[p].message.kind = "Successfully wrote metrics"

(* C1: when every write succeeds, a list of n >= 1 series is written in    *)
(* exactly ceil(n/200) calls, each of 1..200 points, all but the last of   *)
(* exactly 200, and the batches concatenated in call order are the list.   *)
C1_Batching ==
  \A p \in Slots :
    LET w == Writes(p)
        n == Len(time_series_list[p])
    IN  (Succeeded(p) /\ n >= 1 /\ \A k \in 1..Len(w) : w[k].ok)
          => /\ Len(w) = (n + 199) \div 200
             /\ \A k \in 1..Len(w) : Len(w[k].batch) \in 1..200
             /\ \A k \in 1..(Len(w) - 1) : Len(w[k].batch) = 200
             /\ Flatten(w) = time_series_list[p]

C1_Witness ==
  \E p \in Slots :
    /\ Succeeded(p)
    /\ Len(time_series_list[p]) = 450
    /\ Len(Writes(p)) = 3
    /\ Len(Writes(p)[1].batch) = 200
    /\ Len(Writes(p)[2].batch) = 200
    /\ Len(Writes(p)[3].batch) = 50

(* C2: when the write of batch k fails, it is the last external call of    *)
(* the invocation (no later batch, no compensating call), the batches      *)
(* before it stay in the backend, the failure is in flight or has been     *)
(* turned into status 500.                                                 *)
C2_FailedBatchAborts ==
  \A p \in Slots :
    \A k \in 1..Len(calls[p]) :
      (calls[p][k].op = "write" /\ ~calls[p][k].ok)
        => /\ k = Len(calls[p])
           /\ pc[p] \in {"except", "done"}
           /\ err[p] = "write failed"
           /\ Done(p) => response[p] = ErrorResponse("write failed")
           /\ \A j \in 1..(k - 1) :
                calls[p][j].op = "write" => Range(calls[p][j].batch) \subseteq stored

C2_Witness ==
  \E p \in Slots :
    /\ Done(p)
    /\ response[p].status = 500
    /\ Len(Writes(p)) = 2
    /\ Writes(p)[1].ok
    /\ ~Writes(p)[2].ok
    /\ Range(Writes(p)[1].batch) \subseteq stored
    /\ Range(Writes(p)[2].batch) \cap stored = {}

(* C3 as stated: a run in which any external call failed, the descriptor   *)
(* lookup and creation included, does not return 200.                      *)
C3_AnyFailureNot200 ==
  \A p \in Slots :
    (Done(p) /\ \E k \in 1..Len(calls[p]) : ~calls[p][k].ok)
      => response[p].status # 200

(* C3 amended: a run in which the query or a batch write failed returns    *)
(* 500; a run that returns 200 has at most failed descriptor calls.        *)
C3_PropagatedFailureIs500 ==
  \A p \in Slots :
    Done(p) =>
      /\ (\E k \in 1..Len(calls[p]) :
             calls[p][k].op \in {"query", "write"} /\ ~calls[p][k].ok)
           => response[p].status = 500
      /\ response[p].status = 200
           => \A k \in 1..Len(calls[p]) :
                ~calls[p][k].ok => calls[p][k].op \in {"lookup", "create"}

C3_Witness ==
  \E p \in Slots :
    /\ Done(p)
    /\ response[p].status = 500
    /\ \E k \in 1..Len(calls[p]) : calls[p][k].op = "query" /\ ~calls[p][k].ok

(* C4: with the monitoring project identifier missing, main makes no       *)
(* external call, leaves the backend untouched and returns 500.            *)
C4_MissingConfig ==
  MONITORING_PROJECT_ID \in {PyNone, ""} =>
    /\ stored = {}
    /\ \A p \in Slots :
         /\ calls[p] = <<>>
         /\ pc[p] \in {"idle", "main", "except", "done"}
         /\ Done(p) => /\ response[p].status = 500
                       /\ response[p].message.kind = "Error"

C4_Witness ==
  \E p \in Slots :
    /\ MONITORING_PROJECT_ID = PyNone
    /\ Done(p)
    /\ response[p].status = 500
    /\ calls[p] = <<>>

(* C5: when the query returns no rows, main returns "No data to report"    *)
(* with 200 at once: the query is its last external call, no series is     *)
(* built and no write call is made.                                        *)
C5_NoData ==
  \A p \in Slots :
    (calls[p] # <<>> /\ calls[p][Len(calls[p])].op = "query"
       /\ calls[p][Len(calls[p])].ok /\ results[p] = <<>>)
      => /\ Done(p)
         /\ response[p].status = 200
         /\ response[p].message.kind = "No data to report"
         /\ time_series_list[p] = <<>>
         /\ Writes(p) = <<>>

C5_Witness ==
  \E p \in Slots :
    /\ Done(p)
    /\ billing = <<>>
    /\ response[p].message.kind = "No data to report"
    /\ \E k \in 1..Len(calls[p]) : calls[p][k].op = "query" /\ calls[p][k].ok

(* C6 as stated: in a second call of ensure_metric_descriptor_exists the   *)
(* lookup finds the descriptor and no creation is attempted.               *)
C6_SecondCallNeverCreates ==
  \A p \in Slots :
    inv[p] >= 2 =>
      \A k \in 1..Len(calls[p]) :
        /\ calls[p][k].op # "create"
        /\ calls[p][k].op = "lookup" => calls[p][k].ok

(* C6 amended: a second call never raises; it attempts no creation when    *)
(* its lookup succeeds, which requires the descriptor to exist; it         *)
(* attempts one creation when its lookup fails.                            *)
C6_SecondCallCreatesOnlyAfterFailedLookup ==
  \A p \in Slots :
    (inv[p] >= 2 /\ calls[p] # <<>>) =>
      /\ calls[p][1].op = "lookup"
      /\ calls[p][1].ok =>
           /\ DescriptorExists(descriptors)
           /\ \A k \in 1..Len(calls[p]) : calls[p][k].op # "create"
           /\ pc[p] # "create"
      /\ ~calls[p][1].ok =>
           \/ pc[p] = "create"
           \/ Len(calls[p]) >= 2 /\ calls[p][2].op = "create"
      /\ \A k \in 1..Len(calls[p]) : calls[p][k].op = "create" => k = 2
      /\ pc[p] = "except" => calls[p][Len(calls[p])].op \in {"query", "write"}

C6_Witness ==
  \E p \in Slots :
    /\ inv[p] = 2
    /\ Done(p)
    /\ calls[p] # <<>>
    /\ calls[p][1].op = "lookup"
    /\ calls[p][1].ok
    /\ \A k \in 1..Len(calls[p]) : calls[p][k].op # "create"

(* C7: ensure_metric_descriptor_exists never propagates an error: a failed *)
(* lookup is followed by a creation attempt, a failed creation is          *)
(* swallowed, and main goes on to the query.                               *)
C7_EnsureSwallows ==
  \A p \in Slots :
    \A k \in 1..Len(calls[p]) :
      (calls[p][k].op \in {"lookup", "create"} /\ ~calls[p][k].ok) =>
        /\ calls[p][k].op = "lookup" =>
             \/ pc[p] = "create" /\ k = Len(calls[p])
             \/ k < Len(calls[p]) /\ calls[p][k + 1].op = "create"
        /\ calls[p][k].op = "create" =>
             \/ pc[p] \in {"window", "query"} /\ k = Len(calls[p])
             \/ k < Len(calls[p]) /\ calls[p][k + 1].op = "query"
        /\ err[p] \in {NoError, "query failed", "write failed"}
        /\ pc[p] \in {"except", "done"} =>
             \E j \in (k + 1)..Len(calls[p]) : calls[p][j].op = "query"

C7_Witness ==
  \E p \in Slots :
    /\ Done(p)
    /\ Len(calls[p]) >= 3
    /\ calls[p][1].op = "lookup" /\ ~calls[p][1].ok
    /\ calls[p][2].op = "create" /\ ~calls[p][2].ok
    /\ calls[p][3].op = "query" /\ calls[p][3].ok
    /\ response[p].status = 200

(* C8: a failed query is the only query call and the last external call of *)
(* the invocation; no write call is made and main returns 500.             *)
C8_QueryFailure ==
  \A p \in Slots :
    \A k \in 1..Len(calls[p]) :
      (calls[p][k].op = "query" /\ ~calls[p][k].ok) =>
        /\ k = Len(calls[p])
        /\ Len(SelectSeq(calls[p], IsQuery)) = 1
        /\ Writes(p) = <<>>
        /\ pc[p] \in {"except", "done"}
        /\ Done(p) => response[p].status = 500

C8_Witness ==
  \E p \in Slots :
    /\ Done(p)
    /\ response[p].status = 500
    /\ calls[p] # <<>>
    /\ calls[p][Len(calls[p])].op = "query"
    /\ ~calls[p][Len(calls[p])].ok
    /\ billing # <<>>

(* The total of the rows, added row by row within blocks of 25 rows and   *)
(* block by block.                                                         *)
RECURSIVE RunTotal(_, _, _)
RunTotal(rows, lo, hi) ==
  IF lo > hi THEN 0 ELSE rows[lo].daily_cost + RunTotal(rows, lo + 1, hi)

RECURSIVE BlockTotal(_, _)
BlockTotal(rows, b) ==
  IF (b - 1) * 25 >= Len(rows) THEN 0
  ELSE RunTotal(rows, (b - 1) * 25 + 1, Min(b * 25, Len(rows))) + BlockTotal(rows, b + 1)

TotalOf(rows) == BlockTotal(rows, 1)

PointsWritten(p) == Len(Flatten(SelectSeq(Writes(p), LAMBDA c : c.ok)))

ScenarioA == <<Row(1, 12500), Row(2, 3250)>>

(* C9 as stated: on success the message's total is the sum of daily_cost.  *)
C9_TotalIsExactSum ==
  \A p \in Slots :
    Succeeded(p) =>
      /\ response[p].message.projects = Len(results[p])
      /\ response[p].message.total_cents * 10 = TotalOf(results[p])
      /\ PointsWritten(p) = response[p].message.projects

(* C9 amended: on success the status is 200, the message's project count   *)
(* is the number of rows, its total is the sum of daily_cost rounded to    *)
(* two decimals (within half a cent of the sum), and as many points were   *)
(* written as projects are reported; the rows (12.50, 3.25) give 2         *)
(* projects and 15.75.                                                     *)
C9_TotalIsRoundedSum ==
  \A p \in Slots :
    (Succeeded(p) /\ \A k \in 1..Len(calls[p]) : IsWrite(calls[p][k]) => calls[p][k].ok) =>
      LET total == TotalOf(results[p])
          cents == response[p].message.total_cents
      IN  /\ response[p].status = 200
          /\ results[p] = billing
          /\ response[p].message.projects = Len(results[p])
          /\ 10 * cents - total \in -5..5
          /\ PointsWritten(p) = response[p].message.projects
          /\ Cardinality({s \in stored : s.end_time = FromDatetime(end_time[p])})
               = response[p].message.projects
          /\ billing = ScenarioA =>
               /\ response[p].message.projects = 2
               /\ cents = 1575

C9_Witness ==
  \E p \in Slots :
    /\ Succeeded(p)
    /\ billing = ScenarioA
    /\ response[p].message.projects = 2
    /\ response[p].message.total_cents = 1575
    /\ PointsWritten(p) = 2

(* C10: the window ends at midnight UTC of the date of the instant read,   *)
(* starts exactly one day earlier, and start < end <= t.                   *)
C10_PreviousDay ==
  \A p \in Slots :
    now[p] # 0 =>
      /\ end_time[p] % 86400 = 0
      /\ end_time[p] <= now[p]
      /\ now[p] < end_time[p] + 86400
      /\ end_time[p] - start_time[p] = 86400
      /\ start_time[p] < end_time[p]

C10_Witness ==
  \E p \in Slots :
    /\ now[p] = Day0 * DAY + DAY - 1
    /\ end_time[p] = Day0 * DAY
    /\ start_time[p] = (Day0 - 1) * DAY

(* C11: the series list built from the rows has the rows' length, its i-th *)
(* point carries the i-th row's project_id and daily_cost, and every       *)
(* point is stamped with the window's end instant.                         *)
C11_SeriesMatchRows ==
  \A p \in Slots :
    pc[p] \in {"publish", "loop", "returned"} \/ time_series_list[p] # <<>> =>
      /\ Len(time_series_list[p]) = Len(results[p])
      /\ results[p] = billing
      /\ \A i \in 1..Len(results[p]) :
           /\ time_series_list[p][i].project_id = results[p][i].project_id
           /\ time_series_list[p][i].value = results[p][i].daily_cost
           /\ time_series_list[p][i].end_time.seconds = end_time[p]
           /\ time_series_list[p][i].end_time.nanos = 0
           /\ time_series_list[p][i].metric_type = CUSTOM_METRIC_TYPE
      /\ end_time[p] = Today(now[p]) * 86400

C11_Witness ==
  \E p \in Slots :
    /\ pc[p] = "publish"
    /\ results[p] = <<Row(2, 4), Row(1, 12500)>>
    /\ Len(time_series_list[p]) = 2
    /\ time_series_list[p][1].project_id = 2
    /\ time_series_list[p][1].value = 4
    /\ time_series_list[p][2].project_id = 1
    /\ time_series_list[p][2].end_time.seconds = end_time[p]

(* C12: main always ends by returning a (message, status) pair: an         *)
(* exception in flight is at the except clause or has been turned into the *)
(* response; the status is 200 exactly when no exception was raised (the   *)
(* success and "no data" outcomes) and 500 exactly when one was caught.    *)
C12_ResponseContract ==
  \A p \in Slots :
    /\ pc[p] \in {"idle", "main", "lookup", "create", "window", "query", "build",
                  "publish", "loop", "returned", "except", "done"}
    /\ err[p] # NoError => pc[p] \in {"except", "done"}
    /\ pc[p] = "except" => err[p] # NoError
    /\ ~Done(p) => response[p] = NoResponse
    /\ Done(p) =>
         /\ response[p].status \in {200, 500}
         /\ response[p].status = 200 <=>
              /\ err[p] = NoError
              /\ response[p].message.kind \in
                   {"Successfully wrote metrics", "No data to report"}
         /\ response[p].status = 500 <=>
              /\ err[p] # NoError
              /\ response[p].message.kind = "Error"
              /\ response[p].message.text = err[p]

C12_Witness ==
  \E p \in Slots :
    /\ Done(p)
    /\ response[p].status = 500
    /\ response[p].message.kind = "Error"
    /\ response[p].message.text = "write failed"
    /\ inv[p] = 2
    /\ stored # {}

(* The stored points whose timestamp falls in the day that starts at the   *)
(* given instant.                                                          *)
StoredInDay(midnight) ==
  {s \in stored : s.end_time.seconds \in midnight..(midnight + 86399)}

(* C13: re-running for the same day is safe.  Whenever an invocation has   *)
(* succeeded, whatever earlier invocations wrote for that day (a run that  *)
(* failed part-way, or a complete run), the backend holds for that day     *)
(* exactly the points of a single successful run: one point per row, at    *)
(* the window's end, and no two stored points share a series and a         *)
(* timestamp.  The day is the calendar day of the instant the invocation   *)
(* read.                                                                   *)
C13_RetrySafe ==
  /\ \A p \in Slots :
       Succeeded(p) =>
         LET day == StoredInDay((now[p] \div 86400) * 86400)
         IN  /\ day = Range(time_series_list[p])
             /\ Cardinality(day) = Len(billing)
             /\ \A s \in day : s.end_time.seconds = end_time[p]
  /\ Cardinality({SeriesKey(s) : s \in stored}) = Cardinality(stored)

C13_Witness ==
  \E p \in Slots :
    /\ Succeeded(p)
    /\ inv[p] = 2
    /\ end_time[p] \in interrupted
    /\ Len(billing) = MaxRows
    /\ Cardinality(stored) = MaxRows

(* Both invocations found the descriptor absent and attempted to create it. *)
BothAttemptedCreate ==
  \A p \in Slots :
    /\ Len(calls[p]) >= 2
    /\ calls[p][1].op = "lookup" /\ ~calls[p][1].ok
    /\ calls[p][2].op = "create"

(* C14: when two overlapping invocations both find the descriptor absent   *)
(* and both attempt to create it, and one creation succeeds, the other's   *)
(* failure is tolerated: neither invocation aborts because of it, neither  *)
(* repeats a lookup or a creation, and the backend holds exactly one       *)
(* descriptor of the metric type.                                          *)
C14_RaceTolerated ==
  (BothAttemptedCreate /\ \E p \in Slots : calls[p][2].ok) =>
    /\ Cardinality({d \in descriptors : d.type = CUSTOM_METRIC_TYPE}) = 1
    /\ descriptors = {TheDescriptor}
    /\ \A p \in Slots :
         /\ Len(SelectSeq(calls[p], IsLookup)) = 1
         /\ Len(SelectSeq(calls[p], IsCreate)) = 1
         /\ err[p] \in {NoError, "query failed", "write failed"}
         /\ pc[p] \notin {"lookup", "create"}
         /\ pc[p] \in {"except", "done"} =>
              \E k \in 3..Len(calls[p]) : calls[p][k].op = "query"

C14_Witness ==
  /\ BothAttemptedCreate
  /\ inv[1] = 1 /\ inv[2] = 2
  /\ calls[1][2].ok
  /\ ~calls[2][2].ok
  /\ Done(1) /\ response[1].status = 200
  /\ Done(2) /\ response[2].status = 200
  /\ descriptors = {TheDescriptor}

(* C15: write_metrics_to_monitoring called with an empty list returns      *)
(* normally in one step, with no backend call and the backend untouched,   *)
(* and once it has returned no write call has been made.                   *)
C15_EmptyListNoWrites ==
  /\ [](\A p \in Slots :
          (pc[p] = "returned" /\ time_series_list[p] = <<>>)
            => Writes(p) = <<>> /\ err[p] = NoError)
  /\ [][\A p \in Slots :
          (pc[p] = "publish" /\ time_series_list[p] = <<>> /\ pc'[p] # pc[p])
            => /\ pc'[p] = "returned"
               /\ calls'[p] = calls[p]
               /\ stored' = stored
               /\ err'[p] = NoError]_vars

C15_Witness ==
  \E p \in Slots :
    /\ pc[p] = "returned"
    /\ time_series_list[p] = <<>>
    /\ calls[p] = <<>>
    /\ stored = {}

(* C16: whenever ensure_metric_descriptor_exists has returned, also after  *)
(* a swallowed creation failure, the metric descriptor exists in the       *)
(* backend, so main attempts no time-series write while it is absent.      *)
(* The code does not establish this: lines 63-64 swallow every creation    *)
(* failure, whatever its cause.                                            *)
C16_DescriptorExistsAfterEnsure ==
  \A p \in Slots :
    /\ pc[p] \in {"window", "query", "build", "publish", "loop", "returned"}
         => DescriptorExists(descriptors)
    /\ (\E k \in 1..Len(calls[p]) : calls[p][k].op = "write")
         => DescriptorExists(descriptors)

CountOp(p, op) == Cardinality({k \in 1..Len(calls[p]) : calls[p][k].op = op})

PastEnsure(p) ==
  \/ pc[p] \in {"window", "query", "build", "publish", "loop", "returned"}
  \/ pc[p] \in {"except", "done"} /\ calls[p] # <<>>

(* C17: in one invocation of main the steps come in the order config       *)
(* check, descriptor provisioning, window, query, series building,         *)
(* publish.  An invocation that passed the config check has made exactly   *)
(* one lookup, as its first call; the window is read only after the        *)
(* provisioning and before the query; every call before the query belongs  *)
(* to the provisioning and every call after it is a write; the series and  *)
(* the writes exist only after a query that succeeded; and an invocation   *)
(* whose query failed or returned no rows has provisioned all the same.    *)
C17_StepOrder ==
  \A p \in Slots :
    LET c == calls[p] IN
    /\ pc[p] \in {"idle", "main", "lookup"} => c = <<>>
    /\ (pc[p] \in {"except", "done"} /\ c = <<>>)
         => err[p] = "GCP_PROJECT environment variable not set"
    /\ err[p] = "GCP_PROJECT environment variable not set" => c = <<>>
    /\ PastEnsure(p)
         => c # <<>> /\ c[1].op = "lookup" /\ CountOp(p, "lookup") = 1
    /\ pc[p] \in {"lookup", "create", "window"} => now[p] = 0
    /\ \A k \in 1..Len(c) :
         /\ c[k].op = "query"
              => /\ now[p] # 0
                 /\ \A j \in 1..(k - 1) : c[j].op \in {"lookup", "create"}
                 /\ \A j \in (k + 1)..Len(c) : c[j].op = "write"
         /\ c[k].op = "write"
              => \E j \in 1..(k - 1) : c[j].op = "query" /\ c[j].ok
    /\ time_series_list[p] # <<>>
         => \E j \in 1..Len(c) : c[j].op = "query" /\ c[j].ok
    /\ pc[p] \in {"build", "publish", "loop", "returned"}
         => /\ Len(c) > CountOp(p, "write")
            /\ c[Len(c) - CountOp(p, "write")].op = "query"
    /\ (Done(p) /\ response[p].status = 200) => CountOp(p, "query") = 1

C17_Witness ==
  \E p \in Slots :
    /\ Done(p)
    /\ Len(calls[p]) = 3
    /\ calls[p][1].op = "lookup" /\ ~calls[p][1].ok
    /\ calls[p][2].op = "create"
    /\ calls[p][3].op = "query" /\ ~calls[p][3].ok
    /\ response[p].status = 500

(* C18: one call of ensure_metric_descriptor_exists makes exactly one      *)
(* lookup; it makes a create only after a lookup that did not succeed,     *)
(* never after a successful one, at most once; and it repeats neither      *)
(* call.  After a failed lookup the create is the very next call.          *)
C18_EnsureStateMachine ==
  \A p \in Slots :
    LET c == calls[p] IN
    /\ CountOp(p, "lookup") <= 1
    /\ CountOp(p, "create") <= 1
    /\ pc[p] = "create" => Len(c) = 1 /\ c[1].op = "lookup" /\ ~c[1].ok
    /\ PastEnsure(p) =>
         /\ CountOp(p, "lookup") = 1
         /\ c # <<>>
         /\ c[1].op = "lookup"
         /\ c[1].ok => CountOp(p, "create") = 0
         /\ ~c[1].ok => Len(c) >= 2 /\ c[2].op = "create"
    /\ \A k \in 1..Len(c) :
         c[k].op = "create" => k = 2 /\ c[1].op = "lookup" /\ ~c[1].ok

C18_Witness ==
  \E p \in Slots :
    /\ pc[p] = "window"
    /\ Len(calls[p]) = 2
    /\ calls[p][1].op = "lookup" /\ ~calls[p][1].ok
    /\ calls[p][2].op = "create" /\ ~calls[p][2].ok

LastIsFailedWrite(p) ==
  /\ calls[p] # <<>>
  /\ calls[p][Len(calls[p])].op = "write"
  /\ ~calls[p][Len(calls[p])].ok

(* C19: when the write of batch k fails, the project identifiers logged    *)
(* are the project ids of rows 200(k-1)+1 .. min(200k, n) in that order,   *)
(* so none of a batch written before and none of a batch never attempted;  *)
(* nothing is logged while no write has failed.                            *)
C19_FailedProjectsAreTheBatch ==
  \A p \in Slots :
    LET n  == Len(results[p])
        k  == CountOp(p, "write")
        lo == batch_size * (k - 1)
        hi == Min(batch_size * k, n)
        logged == {failed_projects[p][j] : j \in 1..Len(failed_projects[p])}
    IN  /\ ~LastIsFailedWrite(p) => failed_projects[p] = <<>>
        /\ LastIsFailedWrite(p) =>
             /\ Len(failed_projects[p]) = hi - lo
             /\ \A j \in 1..(hi - lo) :
                  failed_projects[p][j] = results[p][lo + j].project_id
             /\ \A j \in 1..lo : results[p][j].project_id \notin logged
             /\ \A j \in (hi + 1)..n : results[p][j].project_id \notin logged

C19_Witness ==
  \E p \in Slots :
    /\ LastIsFailedWrite(p)
    /\ CountOp(p, "write") = 2
    /\ Len(results[p]) = MaxRows
    /\ Len(failed_projects[p]) = batch_size
    /\ failed_projects[p][1] = results[p][batch_size + 1].project_id

CeilDiv(n, d) == (n + d - 1) \div d

BoundedCalls(p) ==
  LET w == Writes(p) IN
  /\ CountOp(p, "lookup") <= 1
  /\ CountOp(p, "create") <= 1
  /\ CountOp(p, "query") <= 1
  /\ Len(w) <= CeilDiv(Len(results[p]), batch_size)
  /\ \A j \in 1..Len(w) :
       w[j].batch = SubSeq(time_series_list[p], batch_size * (j - 1) + 1,
                           Min(batch_size * j, Len(time_series_list[p])))
  /\ Len(calls[p]) <= 3 + CeilDiv(Len(billing), batch_size)

Terminal(p) ==
  /\ Done(p)
  /\ response[p].status \in {200, 500}
  /\ response[p].message.kind \in
       {"Successfully wrote metrics", "No data to report", "Error"}

(* C20: when every external call returns or fails, every invocation of     *)
(* main reaches a terminal (message, status) outcome, and at every moment  *)
(* it has made at most one lookup, one create, one query and ceil(n/200)   *)
(* write calls for n rows, the j-th write call carrying the j-th batch, so *)
(* no batch is attempted twice.                                            *)
C20_TerminatesWithBoundedCalls ==
  /\ [](\A p \in Slots : BoundedCalls(p))
  /\ \A p \in Slots : (pc[p] = "main") ~> Terminal(p)

C20_Witness ==
  \E p \in Slots :
    /\ Terminal(p)
    /\ Len(results[p]) = batch_size + 1
    /\ CountOp(p, "lookup") = 1
    /\ CountOp(p, "create") = 1
    /\ CountOp(p, "query") = 1
    /\ CountOp(p, "write") = 2

====
